---- MODULE Spec2Model ----
(***************************************************************************)
(* Aura: ticket lifecycle (TicketService), agent driver (AgentService),    *)
(* workflow graph (agent.graph.ts) and checkpoint table                    *)
(* (DatabaseCheckpointer).                                                 *)
(*                                                                         *)
(* One ticket is modelled; timestamps are readings of a clock `now` that   *)
(* may stand still between two calls (new Date() has millisecond           *)
(* resolution) and 0 stands for SQL NULL / JS null.                        *)
(***************************************************************************)
EXTENDS Integers, Sequences, FiniteSets, TLC

VARIABLES
  now,          \* wall clock read by new Date()
  config,       \* AuraConfig: [planApprovalRequired]
  ticket,       \* the row of table `tickets`
  thread,       \* latest persisted graph state of the ticket's thread
  call,         \* the run()/resume() invocation in flight
  uuid,         \* number of plans generated so far (crypto.randomUUID per plan)
  calls,        \* number of run()/resume() calls started
  lastCall,     \* outcome of the last finished service call
  agent_states, \* rows of table `agent_states`
  storeOps,     \* number of checkpointer calls made
  lastPut,      \* the last checkpointer call and what it found
  inflight      \* run() calls made without awaiting one another, each with its position

vars == <<now, config, ticket, thread, call, uuid, calls, lastCall,
          agent_states, storeOps, lastPut, inflight>>

ticketVars == <<config, ticket, thread, call, uuid, calls, lastCall>>
storeVars == <<agent_states, storeOps, lastPut>>

----------------------------------------------------------------------------
(* Bounds *)

MaxClock == 2
MaxTurnsBound == 2
MaxPlanSteps == 2
MaxCalls == 2
RecursionLimit == 5
MaxToolCalls == 1
MaxStoreOps == 3
MaxCallsLong == 3
MaxLimit == 2
MaxToolCallsLong == 2
MaxCallsTools == 1

----------------------------------------------------------------------------
(* tickets.ts *)

Statuses ==
  {"draft", "pending_approval", "approved", "in_progress", "awaiting_input",
   "paused", "completed", "failed", "cancelled"}

VALID_TRANSITIONS ==
  [s \in Statuses |->
     CASE s = "draft" -> {"pending_approval", "cancelled"}
       [] s = "pending_approval" -> {"approved", "draft", "cancelled"}
       [] s = "approved" -> {"in_progress", "cancelled"}
       [] s = "in_progress" -> {"awaiting_input", "paused", "completed", "failed", "cancelled"}
       [] s = "awaiting_input" -> {"in_progress", "paused", "cancelled"}
       [] s = "paused" -> {"in_progress", "cancelled"}
       [] s = "completed" -> {}
       [] s = "failed" -> {"draft"}
       [] s = "cancelled" -> {"draft"}]

ZeroUsage == [inputTokens |-> 0, outputTokens |-> 0, totalTokens |-> 0]

\* structured_plan = null
NoPlan == [gen |-> 0, steps |-> <<>>, approvedAt |-> 0]

HasPlan(p) == p.gen > 0

\* TicketService.create: the row inserted for a new ticket
create(maxTurns) ==
  [status |-> "draft", resolvedAt |-> 0, structuredPlan |-> NoPlan,
   currentTurn |-> 0, maxTurns |-> maxTurns, tokenUsage |-> ZeroUsage,
   pendingApproval |-> FALSE, pendingQuestion |-> FALSE]

Ok(t) == [err |-> "none", ticket |-> t]
Throw(e, t) == [err |-> e, ticket |-> t]

TransitionRejected_mut(t, newStatus) ==
  newStatus \notin VALID_TRANSITIONS[t.status] \cup {t.status}

TransitionRejected(t, newStatus) == newStatus \notin VALID_TRANSITIONS[t.status]

ResolvedAtWritten_mut(newStatus) == newStatus \in {"completed", "failed"}

ResolvedAtWritten(newStatus) == newStatus \in {"completed", "failed", "cancelled"}

\* new InvalidStatusTransitionError(from, to)
InvalidStatusTransitionError(t, from, to) ==
  [err |-> "InvalidStatusTransition", ticket |-> t, from |-> from, to |-> to]

transitionStatus(t, newStatus) ==
  IF TransitionRejected(t, newStatus)
    THEN InvalidStatusTransitionError(t, t.status, newStatus)
    ELSE Ok([t EXCEPT !.status = newStatus,
                      !.resolvedAt = IF ResolvedAtWritten(newStatus) THEN now ELSE @])

approvePlan(t) ==
  IF ~HasPlan(t.structuredPlan)
    THEN Throw("NoPlan", t)
    ELSE Ok([t EXCEPT !.structuredPlan.approvedAt = now, !.status = "approved"])

requestApproval(t) ==
  Ok([t EXCEPT !.pendingApproval = TRUE, !.status = "awaiting_input"])

grantApproval(t) ==
  IF ~t.pendingApproval
    THEN Throw("NoPendingApproval", t)
    ELSE Ok([t EXCEPT !.pendingApproval = FALSE, !.status = "in_progress"])

denyApproval(t) ==
  IF ~t.pendingApproval
    THEN Throw("NoPendingApproval", t)
    ELSE Ok([t EXCEPT !.pendingApproval = FALSE, !.status = "in_progress"])

askQuestion(t) ==
  Ok([t EXCEPT !.pendingQuestion = TRUE, !.status = "awaiting_input"])

answerQuestion(t) ==
  IF ~t.pendingQuestion
    THEN Throw("NoPendingQuestion", t)
    ELSE Ok([t EXCEPT !.pendingQuestion = FALSE, !.status = "in_progress"])

AddUsage(a, b) ==
  [inputTokens |-> a.inputTokens + b.inputTokens,
   outputTokens |-> a.outputTokens + b.outputTokens,
   totalTokens |-> a.totalTokens + b.totalTokens]

NextTurn(n) == n + 1

incrementTurn_mut(t, tokenUsage) ==
  Ok([t EXCEPT !.currentTurn = NextTurn(@), !.tokenUsage = tokenUsage])

incrementTurn(t, tokenUsage) ==
  Ok([t EXCEPT !.currentTurn = NextTurn(@),
               !.tokenUsage = AddUsage(@, tokenUsage)])

setStructuredPlan(t, plan) == Ok([t EXCEPT !.structuredPlan = plan])

PendingStep == [status |-> "pending", startedAt |-> 0, completedAt |-> 0, output |-> "none"]

\* a merge that builds the step from the update alone
MergeStep_mut(step, update) ==
  [f \in DOMAIN step |-> IF f \in DOMAIN update THEN update[f] ELSE PendingStep[f]]

\* { ...step, ...update }: update is a record holding a subset of the step's fields
MergeStep(step, update) ==
  [f \in DOMAIN step |-> IF f \in DOMAIN update THEN update[f] ELSE step[f]]

updatePlanStep(t, stepIndex, update) ==
  IF ~HasPlan(t.structuredPlan)
    THEN Throw("NoPlan", t)
    ELSE Ok([t EXCEPT !.structuredPlan.steps =
               [idx \in DOMAIN @ |->
                  IF idx - 1 = stepIndex THEN MergeStep(@[idx], update) ELSE @[idx]]])

----------------------------------------------------------------------------
(* agent.graph.ts: state annotation and reducers *)

Phases == {"planning", "executing", "reviewing", "waiting", "completed"}

\* AgentStateAnnotation defaults; `exists` is FALSE while the thread has no checkpoint,
\* `ticketId` tells whether the ticketId channel holds an id (it has no default)
DefaultState ==
  [exists |-> FALSE, ticketId |-> FALSE, messages |-> <<>>, structuredPlan |-> NoPlan,
   currentStepIndex |-> 0, phase |-> "planning", tokenUsage |-> ZeroUsage,
   waitingFor |-> "none", humanInput |-> "none", planApprovalRequired |-> TRUE,
   error |-> "none"]

\* the reducer of each channel
Reduce(f, existing, update) ==
  CASE f = "messages" -> existing \o update
    [] f = "tokenUsage" -> AddUsage(existing, update)
    [] OTHER -> update

\* a node's Partial<GraphState> (or the input of invoke) written through the reducers
ApplyUpdate(state, update) ==
  [f \in DOMAIN state |->
     IF f \in DOMAIN update THEN Reduce(f, state[f], update[f]) ELSE state[f]]

\* usage_metadata of a response: <<>> when absent, else <<input_tokens, output_tokens>>
NoUsage == <<>>
SomeUsage == <<1, 2>>

extractTokenUsage(usage) ==
  IF usage = <<>>
    THEN ZeroUsage
    ELSE [inputTokens |-> usage[1], outputTokens |-> usage[2],
          totalTokens |-> usage[1] + usage[2]]

\* responses of the planning call: plain text without braces, braces holding
\* malformed JSON, JSON without a steps list, or a plan of n steps
PlanResponses ==
  {[kind |-> k, n |-> 0, usage |-> NoUsage] : k \in {"llm_error", "text", "malformed", "no_steps"}}
    \cup {[kind |-> "plan", n |-> n, usage |-> SomeUsage] : n \in 0..MaxPlanSteps}

\* TicketService.get(id): the row is found for the ticket's id, not for undefined
TicketFound(id) == id

\* createPlanNode, given the LLM's response
PlanNode(state, response) ==
  IF response.kind = "llm_error"
    THEN [throws |-> TRUE, saved |-> FALSE, update |-> <<>>]
  ELSE IF response.kind = "text"
    THEN [throws |-> FALSE, saved |-> FALSE,
          update |-> [messages |-> <<"plan_prompt", "ai">>, error |-> "parse",
                      phase |-> "completed", tokenUsage |-> extractTokenUsage(response.usage)]]
  ELSE IF response.kind \in {"malformed", "no_steps"}
    THEN [throws |-> TRUE, saved |-> FALSE, update |-> <<>>]
  ELSE IF ~TicketFound(state.ticketId)
    THEN [throws |-> TRUE, saved |-> FALSE, update |-> <<>>]
  ELSE LET structuredPlan == [gen |-> uuid + 1,
                              steps |-> [i \in 1..response.n |-> PendingStep],
                              approvedAt |-> 0]
       IN [throws |-> FALSE, saved |-> TRUE,
           update |-> [messages |-> <<"plan_prompt", "ai">>,
                       structuredPlan |-> structuredPlan,
                       currentStepIndex |-> 0,
                       phase |-> IF state.planApprovalRequired THEN "waiting" ELSE "executing",
                       waitingFor |-> IF state.planApprovalRequired THEN "approval" ELSE "none",
                       tokenUsage |-> extractTokenUsage(response.usage)]]

WaitNode_mut(state) ==
  IF state.humanInput = "none" THEN [waitingFor |-> "none"] ELSE <<>>

\* a wait node that takes a rejection for the end of waiting only
WaitNode_mutDeny(state) ==
  IF state.humanInput = "none" THEN <<>>
  ELSE [phase |-> "executing", waitingFor |-> "none", humanInput |-> "none"]

\* createWaitNode
WaitNode(state) ==
  IF state.humanInput = "approve"
    THEN [phase |-> "executing", waitingFor |-> "none", humanInput |-> "none",
          messages |-> <<"plan_approved">>]
  ELSE IF state.humanInput = "deny"
    THEN [phase |-> "completed", waitingFor |-> "none", humanInput |-> "none",
          error |-> "rejected"]
  ELSE IF state.humanInput \in {"answer", "answer_blank"}
    THEN [phase |-> "executing", waitingFor |-> "none", humanInput |-> "none",
          messages |-> <<"user_response">>]
  ELSE <<>>

\* createReviewNode; `complete` tells whether the response contains TASK_COMPLETE
ReviewCallsLlm(state) ==
  HasPlan(state.structuredPlan) /\ state.currentStepIndex >= Len(state.structuredPlan.steps)

ReviewResponses ==
  {[kind |-> "llm_error", usage |-> NoUsage],
   [kind |-> "TASK_COMPLETE", usage |-> SomeUsage],
   [kind |-> "more_work", usage |-> SomeUsage]}

\* a review node that never asks the LLM
ReviewNode_mut(state, response) == [phase |-> "executing"]

ReviewNode(state, response) ==
  IF ~HasPlan(state.structuredPlan)
    THEN [error |-> "no_plan_review", phase |-> "completed"]
  ELSE IF state.currentStepIndex >= Len(state.structuredPlan.steps)
    THEN [messages |-> <<"review_prompt", "ai">>,
          phase |-> IF response.kind = "TASK_COMPLETE" THEN "completed" ELSE "executing",
          tokenUsage |-> extractTokenUsage(response.usage)]
  ELSE [phase |-> "executing"]

routeAfterPlan(state) ==
  IF state.phase = "completed" THEN "end"
  ELSE IF state.phase = "waiting" THEN "wait"
  ELSE "execute"

routeAfterExecute(state) ==
  IF state.phase = "waiting" THEN "wait"
  ELSE IF state.phase = "reviewing" THEN "review"
  ELSE "execute"

\* a review that always ends the invocation
routeAfterReview_mut(state) == "end"

routeAfterReview(state) ==
  IF state.phase = "completed" THEN "end"
  ELSE IF state.phase = "planning" THEN "planning"
  ELSE "execute"

routeAfterWait_mut(state) ==
  IF state.phase = "completed" THEN "end"
  ELSE IF state.phase = "executing" THEN "execute"
  ELSE "wait"

routeAfterWait(state) ==
  IF state.phase = "completed" THEN "end"
  ELSE IF state.phase = "executing" THEN "execute"
  ELSE "end"

\* a graph with a fixed start node
routeFromStart_mut(state) == "planning"

routeFromStart(state) ==
  IF HasPlan(state.structuredPlan) /\ (state.phase = "waiting" \/ state.waitingFor # "none")
    THEN "wait"
  ELSE IF HasPlan(state.structuredPlan) /\ state.phase \in {"executing", "reviewing"}
    THEN "execute"
  ELSE "planning"

----------------------------------------------------------------------------
(* agent.graph.ts: the execute node *)

ToolNames == {"ask_question", "request_approval", "write_file"}

ToolCallSeqs == UNION {[1..n -> ToolNames] : n \in 1..MaxToolCalls}

\* a name the LLM emits that no bound tool carries
UnknownTool == "no_such_tool"

ToolCallSeqsLong ==
  UNION {[1..n -> ToolNames \cup {UnknownTool}] : n \in 1..MaxToolCallsLong}

\* responses of the tool-bound LLM
ExecuteResponses ==
  {[kind |-> "llm_error", tool_calls |-> <<>>, usage |-> NoUsage],
   [kind |-> "text", tool_calls |-> <<>>, usage |-> SomeUsage]}
    \cup {[kind |-> "tools", tool_calls |-> tc, usage |-> NoUsage] : tc \in ToolCallSeqs}

\* responses with up to MaxToolCallsLong tool calls, unknown names among them
ExecuteResponsesLong ==
  {[kind |-> "llm_error", tool_calls |-> <<>>, usage |-> NoUsage],
   [kind |-> "text", tool_calls |-> <<>>, usage |-> SomeUsage]}
    \cup {[kind |-> "tools", tool_calls |-> tc, usage |-> NoUsage] : tc \in ToolCallSeqsLong}

IncludesContinue(message) == message = "execute_prompt"

\* the execution prompt is added unless the last message already holds it
ExecutePrompt(state) ==
  IF Len(state.messages) = 0 \/ ~IncludesContinue(state.messages[Len(state.messages)])
    THEN <<"execute_prompt">>
    ELSE <<>>

\* tools.human.ts: what invoking one tool does to the ticket; interrupt() throws
\* inside the tool, so both human tools end in the catch branch; a ToolMessage is
\* appended for a result and for a caught error alike
ToolEffect(t, name) ==
  CASE name = "ask_question" -> askQuestion(t).ticket
    [] name = "request_approval" -> requestApproval(t).ticket
    [] OTHER -> t

\* tools.find((t) => t.name === toolCall.name)
FindTool(name) == name \in ToolNames

\* the ToolMessage answering the tool call at position i of the response; it
\* carries the call's tool_call_id, and its content is the tool's result or
\* `Error: ...` for a tool that threw
ToolMessageFor(i) ==
  CASE i = 1 -> "tool_1"
    [] i = 2 -> "tool_2"

\* what the loop pushes for one tool call: nothing when no tool has the name
ToolMessage(name, i) ==
  IF FindTool(name) THEN <<ToolMessageFor(i)>> ELSE <<>>

\* the for-loop over response.tool_calls
RECURSIVE RunToolsFrom(_, _, _)
RunToolsFrom(t, tool_calls, i) ==
  IF i > Len(tool_calls)
    THEN [ticket |-> t, messages |-> <<>>]
    ELSE LET rest == RunToolsFrom(ToolEffect(t, tool_calls[i]), tool_calls, i + 1)
         IN [ticket |-> rest.ticket,
             messages |-> ToolMessage(tool_calls[i], i) \o rest.messages]

RunTools(t, tool_calls) == RunToolsFrom(t, tool_calls, 1)

MarksInProgress(currentStep) == currentStep.status = "pending"

StepStarted == [status |-> "in_progress", startedAt |-> now]

StepCompleted_mut == [completedAt |-> now]

\* stepOutput: the content of a response without tool calls
StepOutput == "step_output"

StepCompleted == [status |-> "completed", completedAt |-> now, output |-> StepOutput]

\* a node that stays on the step it has completed
AdvanceStep_mut(currentStepIndex) == currentStepIndex

\* currentStepIndex: state.currentStepIndex + 1
AdvanceStep(currentStepIndex) == currentStepIndex + 1

ExecuteCallsLlm(state) ==
  HasPlan(state.structuredPlan)
    /\ state.currentStepIndex + 1 \in DOMAIN state.structuredPlan.steps

\* createExecuteNode: [throws, ticket, update]
ExecuteNode(state, t, response) ==
  IF ~HasPlan(state.structuredPlan)
    THEN [throws |-> FALSE, ticket |-> t,
          update |-> [error |-> "no_plan", phase |-> "completed"]]
  ELSE IF state.currentStepIndex + 1 \notin DOMAIN state.structuredPlan.steps
    THEN [throws |-> FALSE, ticket |-> t,
          update |-> [error |-> "invalid_index", phase |-> "completed"]]
  ELSE
    LET currentStep == state.structuredPlan.steps[state.currentStepIndex + 1]
        started == IF ~MarksInProgress(currentStep) THEN Ok(t)
                   ELSE IF ~TicketFound(state.ticketId) THEN Throw("TicketNotFound", t)
                   ELSE updatePlanStep(t, state.currentStepIndex, StepStarted)
        tools == RunTools(started.ticket, response.tool_calls)
        done == IF ~TicketFound(state.ticketId) THEN Throw("TicketNotFound", t)
                ELSE updatePlanStep(started.ticket, state.currentStepIndex, StepCompleted)
    IN IF started.err # "none"
         THEN [throws |-> TRUE, ticket |-> t, update |-> <<>>]
       ELSE IF response.kind = "llm_error"
         THEN [throws |-> TRUE, ticket |-> started.ticket, update |-> <<>>]
       ELSE IF response.kind = "tools"
         THEN [throws |-> FALSE, ticket |-> tools.ticket,
               update |-> [messages |-> ExecutePrompt(state) \o <<"ai_tool_calls">> \o tools.messages,
                           tokenUsage |-> extractTokenUsage(response.usage),
                           phase |-> "executing"]]
       ELSE IF done.err # "none"
         THEN [throws |-> TRUE, ticket |-> started.ticket, update |-> <<>>]
       ELSE [throws |-> FALSE, ticket |-> done.ticket,
             update |-> [messages |-> ExecutePrompt(state) \o <<"ai">>,
                         currentStepIndex |-> AdvanceStep(state.currentStepIndex),
                         tokenUsage |-> extractTokenUsage(response.usage),
                         phase |-> "reviewing"]]

----------------------------------------------------------------------------
(* agent.ts: AgentService, and the compiled graph it drives *)

\* no invocation in flight; of an invocation the record notes where it stands, how
\* many supersteps, waits and plannings it ran, whether run() passed an approved
\* plan (approvedEntry), whether it began on a state waiting for approval with an
\* approving input (approvalGiven), and whether every LLM response so far was a
\* valid plan, tool-free, or TASK_COMPLETE (clean), and what made graph.invoke
\* throw (cause)
Idle == [kind |-> "idle", node |-> "none", steps |-> 0, waits |-> 0, plans |-> 0,
         approvedEntry |-> FALSE, approvalGiven |-> FALSE, clean |-> TRUE,
         cause |-> "none"]

NoCall == [op |-> "none", err |-> "none", from |-> "none", to |-> "none",
           phase |-> "none", success |-> FALSE, input |-> "none"]

\* resume's input: absent, {type: 'approval', approved: true}, {type: 'approval'}
\* with approved false or absent, {type: 'answer', answer} with a non-empty
\* answer, and {type: 'answer'} with an empty or absent answer
HumanInputs == {"none", "approve", "deny", "answer", "answer_blank"}

\* graph.invoke(input, {thread_id}): the input is written over the checkpointed
\* values and the run starts at START
Invoke(kind, input, approved) ==
  LET state == [ApplyUpdate(thread, input) EXCEPT !.exists = TRUE]
  IN /\ thread' = state
     /\ call' = [Idle EXCEPT !.kind = kind, !.node = routeFromStart(state),
                             !.approvedEntry = approved,
                             !.approvalGiven =
                               /\ HasPlan(thread.structuredPlan)
                               /\ thread.phase = "waiting"
                               /\ thread.waitingFor = "approval"
                               /\ state.humanInput = "approve"]
     /\ calls' = calls + 1

\* createAgentGraph: addConditionalEdges of each node
ConditionalEdge(node, state) ==
  CASE node = "planning" -> routeAfterPlan(state)
    [] node = "execute" -> routeAfterExecute(state)
    [] node = "review" -> routeAfterReview(state)
    [] node = "wait" -> routeAfterWait(state)

\* one superstep: the node's update is checkpointed and the conditional edge taken;
\* the runtime throws once RecursionLimit supersteps have run without reaching END
Superstep(update, clean) ==
  LET state == ApplyUpdate(thread, update)
      next == ConditionalEdge(call.node, state)
  IN /\ thread' = state
     /\ call' = [call EXCEPT
                   !.node = IF next # "end" /\ call.steps + 1 >= RecursionLimit
                              THEN "threw" ELSE next,
                   !.cause = IF next # "end" /\ call.steps + 1 >= RecursionLimit
                               THEN "recursion_limit" ELSE @,
                   !.steps = @ + 1,
                   !.clean = @ /\ clean,
                   !.waits = IF call.node = "wait" THEN @ + 1 ELSE @,
                   !.plans = IF call.node = "planning" THEN @ + 1 ELSE @]

NodeThrows(cause) ==
  /\ call' = [call EXCEPT !.node = "threw", !.steps = @ + 1, !.clean = FALSE,
                          !.cause = cause,
                          !.plans = IF call.node = "planning" THEN @ + 1 ELSE @]
  /\ UNCHANGED thread

hasApprovedPlan_mut(t) == FALSE

hasApprovedPlan(t) == t.structuredPlan.approvedAt # 0

MaxTurnsExceeded_mut(t) == t.currentTurn > t.maxTurns

MaxTurnsExceeded(t) == t.currentTurn >= t.maxTurns

\* run() up to graph.invoke, as one of at most `limit` agent calls
RunWithin(limit) ==
  /\ call.kind = "idle"
  /\ calls < limit
  /\ IF MaxTurnsExceeded(ticket)
       THEN /\ lastCall' = [NoCall EXCEPT !.op = "run", !.err = "MaxTurnsExceeded"]
            /\ UNCHANGED <<ticket, thread, call, calls>>
       ELSE /\ ticket' = IF ticket.status = "approved"
                           THEN transitionStatus(ticket, "in_progress").ticket
                           ELSE ticket
            /\ Invoke("run",
                      IF hasApprovedPlan(ticket)
                        THEN [ticketId |-> TRUE,
                              planApprovalRequired |-> config.planApprovalRequired,
                              structuredPlan |-> ticket.structuredPlan,
                              phase |-> "waiting", waitingFor |-> "approval",
                              humanInput |-> "approve"]
                        ELSE [ticketId |-> TRUE,
                              planApprovalRequired |-> config.planApprovalRequired],
                      hasApprovedPlan(ticket))
            /\ lastCall' = [NoCall EXCEPT !.op = "run", !.err = "pending"]
  /\ UNCHANGED <<now, config, uuid, storeVars, inflight>>

\* getState() of a thread without checkpoint yields the empty channel values, an
\* object, so `!currentState.values` does not hold for it
StateValuesMissing(state) == FALSE

\* resume() up to graph.invoke, as one of at most `limit` agent calls
ResumeWithin(limit, input) ==
  /\ call.kind = "idle"
  /\ calls < limit
  /\ LET recorded == CASE input = "approve" -> grantApproval(ticket)
                       [] input = "deny" -> denyApproval(ticket)
                       [] input = "answer" -> answerQuestion(ticket)
                       [] OTHER -> Ok(ticket)
     IN IF MaxTurnsExceeded(ticket)
          THEN /\ lastCall' = [NoCall EXCEPT !.op = "resume", !.err = "MaxTurnsExceeded",
                                               !.input = input]
               /\ UNCHANGED <<ticket, thread, call, calls>>
        ELSE IF StateValuesMissing(thread)
          THEN /\ lastCall' = [NoCall EXCEPT !.op = "resume", !.err = "AgentNotRunning",
                                               !.input = input]
               /\ UNCHANGED <<ticket, thread, call, calls>>
        ELSE IF recorded.err # "none"
          THEN /\ lastCall' = [NoCall EXCEPT !.op = "resume", !.err = recorded.err,
                                               !.input = input]
               /\ UNCHANGED <<ticket, thread, call, calls>>
        ELSE /\ ticket' = recorded.ticket
             /\ Invoke("resume", [humanInput |-> input], FALSE)
             /\ lastCall' = [NoCall EXCEPT !.op = "resume", !.err = "pending",
                                             !.input = input]
  /\ UNCHANGED <<now, config, uuid, storeVars, inflight>>

RunStart == RunWithin(MaxCalls)

ResumeStart(input) == ResumeWithin(MaxCalls, input)

Planning ==
  /\ call.node = "planning"
  /\ \E response \in PlanResponses :
       LET r == PlanNode(thread, response)
       IN IF r.throws
            THEN NodeThrows(response.kind) /\ UNCHANGED <<ticket, uuid>>
            ELSE /\ Superstep(r.update, response.kind = "plan")
                 /\ ticket' = IF r.saved
                                THEN setStructuredPlan(ticket, r.update.structuredPlan).ticket
                                ELSE ticket
                 /\ uuid' = IF r.saved THEN uuid + 1 ELSE uuid
  /\ UNCHANGED <<now, config, calls, lastCall, storeVars, inflight>>

ExecuteWith(responses) ==
  /\ call.node = "execute"
  /\ \E response \in responses :
       LET r == ExecuteNode(thread, ticket, response)
       IN /\ ticket' = r.ticket
          /\ IF r.throws
               THEN NodeThrows(response.kind)
               ELSE Superstep(r.update, ExecuteCallsLlm(thread) => response.kind = "text")
  /\ UNCHANGED <<now, config, uuid, calls, lastCall, storeVars, inflight>>

Execute == ExecuteWith(ExecuteResponses)

Review ==
  /\ call.node = "review"
  /\ \E response \in ReviewResponses :
       IF ReviewCallsLlm(thread) /\ response.kind = "llm_error"
         THEN NodeThrows(response.kind)
         ELSE Superstep(ReviewNode(thread, response),
                        ReviewCallsLlm(thread) => response.kind = "TASK_COMPLETE")
  /\ UNCHANGED <<now, config, ticket, uuid, calls, lastCall, storeVars, inflight>>

Wait ==
  /\ call.node = "wait"
  /\ Superstep(WaitNode(thread), TRUE)
  /\ UNCHANGED <<now, config, ticket, uuid, calls, lastCall, storeVars, inflight>>

\* run(): the status a finished invocation is mapped to ("none": no transition)
RunTarget(result) ==
  IF result.phase = "completed" THEN "completed"
  ELSE IF result.phase = "waiting"
    THEN IF result.waitingFor = "approval" /\ HasPlan(result.structuredPlan)
              /\ result.structuredPlan.approvedAt = 0
           THEN "pending_approval"
           ELSE "awaiting_input"
  ELSE "none"

\* resume(): the same mapping without the plan-approval case
ResumeTarget(result) ==
  IF result.phase = "completed" THEN "completed"
  ELSE IF result.phase = "waiting" THEN "awaiting_input"
  ELSE "none"

\* the part of run()/resume() after graph.invoke, with its catch block
Finish(op, target) ==
  /\ call.kind = op
  /\ call.node \in {"end", "threw"}
  /\ IF call.node = "threw"
       THEN /\ lastCall' = [NoCall EXCEPT !.op = op, !.err = "caught", !.phase = "completed"]
            /\ UNCHANGED ticket
       ELSE LET counted == incrementTurn(ticket, thread.tokenUsage).ticket
                moved == IF target = "none" THEN Ok(counted)
                                            ELSE transitionStatus(counted, target)
            IN /\ ticket' = moved.ticket
               /\ lastCall' = IF moved.err = "none"
                                THEN [NoCall EXCEPT !.op = op, !.phase = thread.phase,
                                                    !.success = (thread.phase = "completed")]
                                ELSE [NoCall EXCEPT !.op = op, !.err = "caught",
                                                    !.phase = "completed"]
  /\ call' = Idle
  /\ UNCHANGED <<now, config, thread, uuid, calls, storeVars, inflight>>

RunFinish == Finish("run", RunTarget(thread))

ResumeFinish == Finish("resume", ResumeTarget(thread))

Cancel ==
  /\ call.kind = "idle"
  /\ thread' = DefaultState
  /\ ticket' = transitionStatus(ticket, "cancelled").ticket
  /\ lastCall' = [NoCall EXCEPT !.op = "cancel"]
  /\ UNCHANGED <<now, config, call, uuid, calls, storeVars, inflight>>

\* PUT /tickets/:id/status
TransitionStatus(newStatus) ==
  /\ call.kind = "idle"
  /\ LET r == transitionStatus(ticket, newStatus)
     IN /\ ticket' = r.ticket
        /\ lastCall' = IF r.err = "none"
                         THEN [NoCall EXCEPT !.op = "transitionStatus", !.to = newStatus]
                         ELSE [NoCall EXCEPT !.op = "transitionStatus", !.err = r.err,
                                             !.from = r.from, !.to = r.to]
  /\ UNCHANGED <<now, config, thread, call, uuid, calls, storeVars, inflight>>

\* POST /tickets/:id/approve
ApprovePlan ==
  /\ call.kind = "idle"
  /\ LET r == approvePlan(ticket)
     IN /\ ticket' = r.ticket
        /\ lastCall' = [NoCall EXCEPT !.op = "approvePlan", !.err = r.err]
  /\ UNCHANGED <<now, config, thread, call, uuid, calls, storeVars, inflight>>

----------------------------------------------------------------------------
(* agent.checkpointer.ts: DatabaseCheckpointer over table agent_states *)

Threads == {"t1", "t2"}
CheckpointIds == {"c1", "c2"}

\* undefined / SQL NULL for an id
NoId == ""

\* what a caller hands to put: the checkpoint's content with its metadata; the
\* third content holds a message object, which JSON writes in its serialized form
Writes ==
  {[v |-> "A", metadata |-> "mA"], [v |-> "B", metadata |-> "mB"],
   [v |-> "msg_instance", metadata |-> "mC"]}

JSON_stringify(x) == IF x = "msg_instance" THEN "msg_serialized" ELSE x

JSON_parse(text) == text

NoPut == [op |-> "none", ticket_id |-> NoId, checkpoint_id |-> NoId, v |-> "",
          metadata |-> "", err |-> "none", existed |-> FALSE, taskId |-> NoId,
          writes |-> <<>>, parent |-> NoId]

RowsOf(rows, threadId) == {r \in rows : r.ticket_id = threadId}

RowsAt(rows, threadId, checkpointId) ==
  {r \in rows : r.ticket_id = threadId /\ r.checkpoint_id = checkpointId}

\* an insert that ignores the conflict target
Upsert_mut(rows, row, merged) == rows \cup {row}

\* .insert(row).onConflict(['ticket_id', 'checkpoint_id']).merge(fields)
Upsert(rows, row, merged) ==
  IF RowsAt(rows, row.ticket_id, row.checkpoint_id) = {}
    THEN rows \cup {row}
    ELSE {IF r.ticket_id = row.ticket_id /\ r.checkpoint_id = row.checkpoint_id
            THEN [f \in DOMAIN r |-> IF f \in merged THEN row[f] ELSE r[f]]
            ELSE r : r \in rows}

\* DatabaseCheckpointer.put: the table after the call; rowid is SQLite's insertion
\* number, which no query of the checkpointer reads
put(rows, threadId, parentCheckpointId, checkpointId, write) ==
  Upsert(rows,
         [ticket_id |-> threadId,
          checkpoint_id |-> checkpointId,
          parent_checkpoint_id |-> parentCheckpointId,
          state |-> [id |-> checkpointId, v |-> JSON_stringify(write.v)],
          metadata |-> JSON_stringify(write.metadata),
          created_at |-> now,
          pending_writes |-> <<>>,
          rowid |-> storeOps + 1],
         {"state", "metadata"})

\* .orderBy('created_at', 'desc').first(): any row with the greatest created_at
FirstByCreatedAtDesc(rows) ==
  {r \in rows : \A q \in rows : q.created_at <= r.created_at}

\* DatabaseCheckpointer.getTuple: the tuples the query can yield; {} is undefined
getTuple(rows, threadId, checkpointId) ==
  LET matching == IF checkpointId # NoId THEN RowsAt(rows, threadId, checkpointId)
                                          ELSE RowsOf(rows, threadId)
  IN {[checkpoint_id |-> JSON_parse(row.state).id,
       checkpoint |-> JSON_parse(row.state).v,
       metadata |-> JSON_parse(row.metadata),
       parent |-> row.parent_checkpoint_id,
       pendingWrites |-> row.pending_writes] : row \in FirstByCreatedAtDesc(matching)}

\* the new writes put in front of the stored ones
putWrites_mut(rows, threadId, checkpointId, writes, taskId) ==
  {IF r.ticket_id = threadId /\ r.checkpoint_id = checkpointId
     THEN [r EXCEPT !.pending_writes = [i \in DOMAIN writes |-> <<taskId, writes[i]>>] \o @]
     ELSE r : r \in rows}

\* the lists of writes handed to putWrites
WriteLists == {<<"a">>, <<"a", "b">>}

\* DatabaseCheckpointer.putWrites: the rows after appending [taskId, ...w] per write
putWrites(rows, threadId, checkpointId, writes, taskId) ==
  {IF r.ticket_id = threadId /\ r.checkpoint_id = checkpointId
     THEN [r EXCEPT !.pending_writes = @ \o [i \in DOMAIN writes |-> <<taskId, writes[i]>>]]
     ELSE r : r \in rows}

\* a delete that spares the oldest checkpoint of the thread
deleteThread_mut(rows, threadId) ==
  {r \in rows : r.ticket_id # threadId
                 \/ \A q \in RowsOf(rows, threadId) : r.rowid <= q.rowid}

\* DatabaseCheckpointer.deleteThread
deleteThread(rows, threadId) == {r \in rows : r.ticket_id # threadId}

\* the CheckpointTuple built from a row
CheckpointTuple(row) ==
  [checkpoint_id |-> JSON_parse(row.state).id,
   checkpoint |-> JSON_parse(row.state).v,
   metadata |-> JSON_parse(row.metadata),
   parent |-> row.parent_checkpoint_id,
   pendingWrites |-> row.pending_writes]

\* .orderBy('created_at', 'desc'): every order of the rows the database may
\* return, rows of equal created_at in any order
OrderByCreatedAtDesc(rows) ==
  {seq \in [1..Cardinality(rows) -> rows] :
     /\ \A i, j \in DOMAIN seq : i # j => seq[i] # seq[j]
     /\ \A i, j \in DOMAIN seq : i < j => seq[i].created_at >= seq[j].created_at}

\* the rows the query of list selects: those of the thread, and when the `before`
\* checkpoint is found, only rows with created_at < beforeRow.created_at
ListQuery(rows, threadId, before) ==
  LET beforeRow == IF before = NoId THEN {} ELSE RowsAt(rows, threadId, before)
  IN {r \in RowsOf(rows, threadId) : \A b \in beforeRow : r.created_at < b.created_at}

\* options.limit: 0 stands for an absent limit (and `if (options?.limit)` takes the
\* number 0 for absent as well)
Limit(seq, limit) ==
  IF limit = 0 \/ limit >= Len(seq) THEN seq ELSE SubSeq(seq, 1, limit)

\* DatabaseCheckpointer.list: the sequences of tuples the generator can yield
list(rows, threadId, before, limit) ==
  {[i \in DOMAIN Limit(seq, limit) |-> CheckpointTuple(seq[i])] :
     seq \in OrderByCreatedAtDesc(ListQuery(rows, threadId, before))}

Put ==
  /\ storeOps < MaxStoreOps
  /\ \E threadId \in Threads, checkpointId \in CheckpointIds,
        parentCheckpointId \in CheckpointIds \cup {NoId}, write \in Writes :
       /\ agent_states' = put(agent_states, threadId, parentCheckpointId, checkpointId, write)
       /\ lastPut' = [NoPut EXCEPT !.op = "put", !.ticket_id = threadId,
                                   !.checkpoint_id = checkpointId, !.v = write.v,
                                   !.metadata = write.metadata,
                                   !.parent = parentCheckpointId,
                                   !.existed = (RowsAt(agent_states, threadId, checkpointId) # {})]
  /\ storeOps' = storeOps + 1
  /\ UNCHANGED <<now, ticketVars, inflight>>

PutWrites ==
  /\ storeOps < MaxStoreOps
  /\ \E threadId \in Threads, checkpointId \in CheckpointIds, taskId \in {"k1", "k2"},
        writes \in WriteLists :
       IF RowsAt(agent_states, threadId, checkpointId) = {}
         THEN /\ lastPut' = [NoPut EXCEPT !.op = "putWrites", !.ticket_id = threadId,
                                          !.checkpoint_id = checkpointId,
                                          !.taskId = taskId, !.writes = writes,
                                          !.err = "Checkpoint not found"]
              /\ UNCHANGED agent_states
         ELSE /\ agent_states' = putWrites(agent_states, threadId, checkpointId, writes, taskId)
              /\ lastPut' = [NoPut EXCEPT !.op = "putWrites", !.ticket_id = threadId,
                                          !.checkpoint_id = checkpointId,
                                          !.taskId = taskId, !.writes = writes,
                                          !.existed = TRUE]
  /\ storeOps' = storeOps + 1
  /\ UNCHANGED <<now, ticketVars, inflight>>

DeleteThread ==
  /\ storeOps < MaxStoreOps
  /\ \E threadId \in Threads :
       /\ agent_states' = deleteThread(agent_states, threadId)
       /\ lastPut' = [NoPut EXCEPT !.op = "deleteThread", !.ticket_id = threadId,
                                   !.existed = (RowsOf(agent_states, threadId) # {})]
  /\ storeOps' = storeOps + 1
  /\ UNCHANGED <<now, ticketVars, inflight>>

----------------------------------------------------------------------------
(* agent.ts: run() called again while an earlier run() of the same ticket is pending *)

Callers == {1, 2}

\* a caller's position in run(), the result its graph.invoke returned, the row its
\* incrementTurn read, and the number of results it obtained so far
NotCalling == [at |-> "idle", phase |-> "none", tokenUsage |-> ZeroUsage,
               currentTurn |-> 0, read |-> ZeroUsage, results |-> 0]

\* what graph.invoke returns to run(): the final phase and the state's tokenUsage
InvokeResults ==
  {[phase |-> ph, tokenUsage |-> extractTokenUsage(u)] :
     ph \in {"completed", "waiting"}, u \in {NoUsage, SomeUsage}}

\* run() up to graph.invoke
ConcurrentRunStart(p) ==
  /\ inflight[p].at = "idle"
  /\ ~MaxTurnsExceeded(ticket)
  /\ ticket' = IF ticket.status = "approved"
                 THEN transitionStatus(ticket, "in_progress").ticket
                 ELSE ticket
  /\ inflight' = [inflight EXCEPT ![p].at = "invoke"]
  /\ UNCHANGED <<now, config, thread, call, uuid, calls, lastCall, storeVars>>

\* graph.invoke returns, or throws into run()'s catch block
ConcurrentInvoke(p) ==
  /\ inflight[p].at = "invoke"
  /\ \/ \E result \in InvokeResults :
          inflight' = [inflight EXCEPT ![p].at = "incrementTurn",
                                       ![p].phase = result.phase,
                                       ![p].tokenUsage = result.tokenUsage,
                                       ![p].results = @ + 1]
     \/ inflight' = [inflight EXCEPT ![p].at = "idle"]
  /\ UNCHANGED <<now, ticketVars, storeVars>>

\* incrementTurn: const ticket = await this.get(id)
IncrementTurnGet(p) ==
  /\ inflight[p].at = "incrementTurn"
  /\ inflight' = [inflight EXCEPT ![p].at = "update",
                                   ![p].currentTurn = ticket.currentTurn,
                                   ![p].read = ticket.tokenUsage]
  /\ UNCHANGED <<now, ticketVars, storeVars>>

\* incrementTurn: the update of current_turn and token_usage, computed from the
\* row that was read
IncrementTurnUpdate(p) ==
  /\ inflight[p].at = "update"
  /\ LET row == [ticket EXCEPT !.currentTurn = inflight[p].currentTurn,
                               !.tokenUsage = inflight[p].read]
         written == incrementTurn(row, inflight[p].tokenUsage).ticket
     IN ticket' = [ticket EXCEPT !.currentTurn = written.currentTurn,
                                 !.tokenUsage = written.tokenUsage]
  /\ inflight' = [inflight EXCEPT ![p].at = "transition"]
  /\ UNCHANGED <<now, config, thread, call, uuid, calls, lastCall, storeVars>>

\* run(): the status transition for the phase, rejected transitions being caught
ConcurrentRunFinish(p) ==
  /\ inflight[p].at = "transition"
  /\ ticket' = transitionStatus(ticket,
                                IF inflight[p].phase = "completed"
                                  THEN "completed" ELSE "awaiting_input").ticket
  /\ inflight' = [inflight EXCEPT ![p].at = "idle"]
  /\ UNCHANGED <<now, config, thread, call, uuid, calls, lastCall, storeVars>>

----------------------------------------------------------------------------

Tick ==
  /\ now < MaxClock
  /\ now' = now + 1
  /\ UNCHANGED <<ticketVars, storeVars, inflight>>

Init ==
  /\ now = 1
  /\ config \in [planApprovalRequired : BOOLEAN]
  /\ ticket \in {create(m) : m \in 1..MaxTurnsBound}
  /\ thread = DefaultState
  /\ call = Idle
  /\ uuid = 0
  /\ calls = 0
  /\ lastCall = NoCall
  /\ agent_states = {}
  /\ storeOps = 0
  /\ lastPut = NoPut
  /\ inflight = [p \in Callers |-> NotCalling]

Next ==
  \/ RunStart
  \/ \E input \in HumanInputs : ResumeStart(input)
  \/ Planning
  \/ Execute
  \/ Review
  \/ Wait
  \/ RunFinish
  \/ ResumeFinish
  \/ Cancel
  \/ ApprovePlan
  \/ Tick

Spec == Init /\ [][Next]_vars

----------------------------------------------------------------------------
(* TicketService called directly, one call at a time *)

RequestApproval ==
  /\ ticket' = requestApproval(ticket).ticket
  /\ lastCall' = [NoCall EXCEPT !.op = "requestApproval"]
  /\ UNCHANGED <<now, config, thread, call, uuid, calls, storeVars, inflight>>

GrantApproval ==
  /\ LET r == grantApproval(ticket)
     IN ticket' = r.ticket /\ lastCall' = [NoCall EXCEPT !.op = "grantApproval", !.err = r.err]
  /\ UNCHANGED <<now, config, thread, call, uuid, calls, storeVars, inflight>>

DenyApproval ==
  /\ LET r == denyApproval(ticket)
     IN ticket' = r.ticket /\ lastCall' = [NoCall EXCEPT !.op = "denyApproval", !.err = r.err]
  /\ UNCHANGED <<now, config, thread, call, uuid, calls, storeVars, inflight>>

AskQuestion ==
  /\ ticket' = askQuestion(ticket).ticket
  /\ lastCall' = [NoCall EXCEPT !.op = "askQuestion"]
  /\ UNCHANGED <<now, config, thread, call, uuid, calls, storeVars, inflight>>

AnswerQuestion ==
  /\ LET r == answerQuestion(ticket)
     IN ticket' = r.ticket /\ lastCall' = [NoCall EXCEPT !.op = "answerQuestion", !.err = r.err]
  /\ UNCHANGED <<now, config, thread, call, uuid, calls, storeVars, inflight>>

\* the agent calls incrementTurn only below the turn budget
IncrementTurn ==
  /\ ticket.currentTurn < ticket.maxTurns
  /\ \E usage \in {NoUsage, SomeUsage} :
       ticket' = incrementTurn(ticket, extractTokenUsage(usage)).ticket
  /\ lastCall' = [NoCall EXCEPT !.op = "incrementTurn"]
  /\ UNCHANGED <<now, config, thread, call, uuid, calls, storeVars, inflight>>

SetStructuredPlan ==
  /\ uuid < MaxCalls
  /\ \E n \in 0..MaxPlanSteps :
       ticket' = setStructuredPlan(ticket, [gen |-> uuid + 1,
                                            steps |-> [i \in 1..n |-> PendingStep],
                                            approvedAt |-> 0]).ticket
  /\ uuid' = uuid + 1
  /\ lastCall' = [NoCall EXCEPT !.op = "setStructuredPlan"]
  /\ UNCHANGED <<now, config, thread, call, calls, storeVars, inflight>>

\* Partial<PlanStep> values handed to updatePlanStep
PlanStepUpdates ==
  {StepStarted, StepCompleted, [status |-> "failed"]}

\* stepIndex ranges over the positions of a longest plan and one beyond
UpdatePlanStep ==
  /\ \E stepIndex \in 0..MaxPlanSteps, update \in PlanStepUpdates :
       LET r == updatePlanStep(ticket, stepIndex, update)
       IN /\ ticket' = r.ticket
          /\ lastCall' = [NoCall EXCEPT !.op = "updatePlanStep", !.err = r.err]
  /\ UNCHANGED <<now, config, thread, call, uuid, calls, storeVars, inflight>>

NextTicket ==
  \/ \E newStatus \in Statuses : TransitionStatus(newStatus)
  \/ ApprovePlan
  \/ RequestApproval
  \/ GrantApproval
  \/ DenyApproval
  \/ AskQuestion
  \/ AnswerQuestion
  \/ IncrementTurn
  \/ SetStructuredPlan
  \/ Tick

SpecTicket == Init /\ [][NextTicket]_vars

\* the agent together with the operator's PUT /tickets/:id/status to the two
\* statuses no agent call assigns
NextOperator ==
  \/ Next
  \/ \E newStatus \in {"paused", "failed"} : TransitionStatus(newStatus)

SpecOperator == Init /\ [][NextOperator]_vars

\* longer histories of the agent alone: no cancel, and one clock reading
NextLong ==
  \/ RunWithin(MaxCallsLong)
  \/ \E input \in HumanInputs : ResumeWithin(MaxCallsLong, input)
  \/ Planning
  \/ Execute
  \/ Review
  \/ Wait
  \/ RunFinish
  \/ ResumeFinish
  \/ ApprovePlan

SpecLong == Init /\ [][NextLong]_vars

\* POST /tickets/:id/approval/grant, /approval/deny and /answer, and the TUI
\* client's grantApproval, denyApproval and answerQuestion: the TicketService
\* call, then agentService.resume with the matching input, up to graph.invoke.
\* The route refuses an empty answer; the client passes on any string.
ClearThenResume(input) ==
  /\ call.kind = "idle"
  /\ calls < MaxCalls
  /\ LET Clear(t) == CASE input = "approve" -> grantApproval(t)
                        [] input = "deny" -> denyApproval(t)
                        [] OTHER -> answerQuestion(t)
         cleared == Clear(ticket)
         recorded == IF input = "answer_blank" THEN Ok(cleared.ticket)
                                               ELSE Clear(cleared.ticket)
         failed(err) == [NoCall EXCEPT !.op = "clearThenResume", !.err = err,
                                       !.input = input]
     IN IF cleared.err # "none"
          THEN /\ lastCall' = failed(cleared.err)
               /\ UNCHANGED <<ticket, thread, call, calls>>
        ELSE IF MaxTurnsExceeded(cleared.ticket)
          THEN /\ ticket' = cleared.ticket
               /\ lastCall' = failed("MaxTurnsExceeded")
               /\ UNCHANGED <<thread, call, calls>>
        ELSE IF StateValuesMissing(thread)
          THEN /\ ticket' = cleared.ticket
               /\ lastCall' = failed("AgentNotRunning")
               /\ UNCHANGED <<thread, call, calls>>
        ELSE IF recorded.err # "none"
          THEN /\ ticket' = cleared.ticket
               /\ lastCall' = failed(recorded.err)
               /\ UNCHANGED <<thread, call, calls>>
        ELSE /\ ticket' = recorded.ticket
             /\ Invoke("resume", [humanInput |-> input], FALSE)
             /\ lastCall' = [NoCall EXCEPT !.op = "clearThenResume", !.err = "pending",
                                             !.input = input]
  /\ UNCHANGED <<now, config, uuid, storeVars, inflight>>

\* the agent driven through the presentation layer as well
NextPresentation ==
  \/ Next
  \/ \E input \in HumanInputs \ {"none"} : ClearThenResume(input)

SpecPresentation == Init /\ [][NextPresentation]_vars

\* two run() calls of one ticket, each step of a call being one of its awaits, with
\* the status changes that lead a draft to approved
NextConcurrent ==
  \/ \E p \in Callers : ConcurrentRunStart(p)
  \/ \E p \in Callers : ConcurrentInvoke(p)
  \/ \E p \in Callers : IncrementTurnGet(p)
  \/ \E p \in Callers : IncrementTurnUpdate(p)
  \/ \E p \in Callers : ConcurrentRunFinish(p)
  \/ \E newStatus \in {"pending_approval", "approved"} : TransitionStatus(newStatus)

SpecConcurrent == Init /\ [][NextConcurrent]_vars

\* one run() whose execute responses hold up to MaxToolCallsLong tool calls
NextTools ==
  \/ RunWithin(MaxCallsTools)
  \/ Planning
  \/ ExecuteWith(ExecuteResponsesLong)
  \/ Review
  \/ Wait
  \/ RunFinish
  \/ ApprovePlan

SpecTools == Init /\ [][NextTools]_vars

\* the plan of a ticket written through TicketService alone
NextPlan ==
  \/ SetStructuredPlan
  \/ ApprovePlan
  \/ UpdatePlanStep
  \/ Tick

SpecPlan == Init /\ [][NextPlan]_vars

NextStore ==
  \/ Put
  \/ PutWrites
  \/ DeleteThread
  \/ Tick

SpecStore == Init /\ [][NextStore]_vars

----------------------------------------------------------------------------
(* Properties *)

IsCallStep(ops) == lastCall'.op \in ops /\ now' = now

\* C1: transitionStatus(id, t) on a ticket in status s succeeds, making the status t,
\* exactly when t is in VALID_TRANSITIONS[s]; otherwise it raises
\* InvalidStatusTransitionError(from = s, to = t) and leaves status and resolvedAt
\* as they were.
C1_TransitionStatusContract ==
  [][IsCallStep({"transitionStatus"}) =>
       LET s == ticket.status
           t == lastCall'.to
       IN IF t \in VALID_TRANSITIONS[s]
            THEN lastCall'.err = "none" /\ ticket'.status = t
            ELSE /\ lastCall'.err = "InvalidStatusTransition"
                 /\ lastCall'.from = s
                 /\ ticket'.status = s
                 /\ ticket'.resolvedAt = ticket.resolvedAt]_vars

C1_Witness ==
  /\ lastCall.op = "transitionStatus"
  /\ lastCall.err = "InvalidStatusTransition"
  /\ lastCall.from = "completed"
  /\ ticket.resolvedAt # 0
  /\ now > ticket.resolvedAt

\* C2: every change of the ticket's status goes along an edge of VALID_TRANSITIONS;
\* in particular a completed ticket never changes status again.
C2_StatusChangesAlongTable ==
  [][ticket'.status # ticket.status =>
       ticket'.status \in VALID_TRANSITIONS[ticket.status]]_vars

\* C3: within one invocation the wait node runs at most once, and a wait that finds
\* no human input ends the invocation at once with the state unchanged.
C3_WaitRunsOnce ==
  /\ [](call.waits <= 1)
  /\ [][(call.node = "wait" /\ call' # call /\ thread.humanInput = "none") =>
          (call'.node = "end" /\ thread' = thread)]_vars

C3_Witness ==
  /\ call.kind = "run"
  /\ call.node = "end"
  /\ call.waits = 1
  /\ call.plans = 1
  /\ thread.phase = "waiting"

\* C4: without human input the wait node returns the state unchanged: phase (never
\* executing or completed out of waiting), waitingFor, messages and error stay.
C4_WaitWithoutInputIsIdentity ==
  thread.humanInput = "none" =>
    LET after == ApplyUpdate(thread, WaitNode(thread))
    IN /\ after = thread
       /\ after.waitingFor = thread.waitingFor
       /\ after.messages = thread.messages
       /\ after.error = thread.error
       /\ (thread.phase = "waiting" => after.phase \notin {"executing", "completed"})

C4_Witness ==
  /\ call.node = "end"
  /\ call.waits = 1
  /\ thread.humanInput = "none"
  /\ thread.waitingFor = "approval"
  /\ Len(thread.messages) > 0

\* C5: run(id) on a ticket whose plan is approved enters the graph at wait and goes
\* on to executing; planning does not run in that invocation and the plan stored on
\* the ticket is not replaced.
C5_ApprovedPlanSkipsPlanning ==
  /\ []((call.kind = "run" /\ ticket.structuredPlan.approvedAt # 0) =>
          /\ call.plans = 0
          /\ (call.steps = 0 => call.node = "wait")
          /\ (call.steps > 0 => call.waits = 1))
  /\ [][(call.kind = "run" /\ ticket.structuredPlan.approvedAt # 0) =>
          /\ (call.node = "wait" /\ call' # call =>
                call'.node = "execute" /\ thread'.phase = "executing")
          /\ ticket'.structuredPlan.gen = ticket.structuredPlan.gen
          /\ ticket'.structuredPlan.approvedAt = ticket.structuredPlan.approvedAt
          /\ uuid' = uuid]_vars

C5_Witness ==
  /\ call.kind = "run"
  /\ ticket.structuredPlan.approvedAt # 0
  /\ call.waits = 1
  /\ call.node = "review"

InProgressSteps(plan) == {i \in DOMAIN plan.steps : plan.steps[i].status = "in_progress"}

\* C6: at most one step of the ticket's plan is in_progress, in every state that
\* run/resume invocations reach.
C6_AtMostOneInProgress == Cardinality(InProgressSteps(ticket.structuredPlan)) <= 1

C6_Witness ==
  /\ Len(ticket.structuredPlan.steps) = 2
  /\ ticket.structuredPlan.steps[1].status = "completed"
  /\ ticket.structuredPlan.steps[2].status = "in_progress"

UsageLeq(a, b) ==
  /\ a.inputTokens <= b.inputTokens
  /\ a.outputTokens <= b.outputTokens
  /\ a.totalTokens <= b.totalTokens

\* C7: currentTurn and every component of tokenUsage never decrease; a call that
\* obtains an engine result adds the result's usage and exactly one turn.
C7_TurnAndUsageMonotone ==
  [][/\ ticket'.currentTurn >= ticket.currentTurn
     /\ UsageLeq(ticket.tokenUsage, ticket'.tokenUsage)
     /\ (call.node = "end" /\ call'.kind = "idle" =>
           /\ ticket'.currentTurn = ticket.currentTurn + 1
           /\ ticket'.tokenUsage.inputTokens =
                ticket.tokenUsage.inputTokens + thread.tokenUsage.inputTokens
           /\ ticket'.tokenUsage.outputTokens =
                ticket.tokenUsage.outputTokens + thread.tokenUsage.outputTokens
           /\ ticket'.tokenUsage.totalTokens =
                ticket.tokenUsage.totalTokens + thread.tokenUsage.totalTokens)]_vars

C7_Witness ==
  /\ ticket.currentTurn = 2
  /\ ticket.tokenUsage.totalTokens > thread.tokenUsage.totalTokens
  /\ thread.tokenUsage.totalTokens > 0

\* C8: calling put twice with the same work item and checkpoint id and different
\* snapshots leaves exactly one stored checkpoint under that key, and reading the
\* key back yields the second snapshot and the second metadata only (a snapshot
\* that JSON writes unchanged comes back as it was given)
C8_PutTwiceKeepsSecond ==
  (lastPut.op = "put" /\ lastPut.existed) =>
    /\ Cardinality(RowsAt(agent_states, lastPut.ticket_id, lastPut.checkpoint_id)) = 1
    /\ getTuple(agent_states, lastPut.ticket_id, lastPut.checkpoint_id) =
         {[checkpoint_id |-> lastPut.checkpoint_id,
           checkpoint |-> JSON_parse(JSON_stringify(lastPut.v)),
           metadata |-> lastPut.metadata,
           parent |-> t.parent,
           pendingWrites |-> t.pendingWrites] :
             t \in getTuple(agent_states, lastPut.ticket_id, lastPut.checkpoint_id)}
    /\ \A t \in getTuple(agent_states, lastPut.ticket_id, NoId) :
         t.checkpoint_id = lastPut.checkpoint_id =>
           /\ t.metadata = lastPut.metadata
           /\ t.checkpoint = JSON_parse(JSON_stringify(lastPut.v))
           /\ (lastPut.v \in {"A", "B"} => t.checkpoint = lastPut.v)

\* a second put of snapshot B has just replaced snapshot A under the same key
C8_Witness ==
  /\ lastPut.op = "put" /\ lastPut.existed /\ lastPut.v = "B"
  /\ storeOps = 2
  /\ \E t \in getTuple(agent_states, lastPut.ticket_id, NoId) :
       t.checkpoint = "B" /\ t.metadata = "mB"

\* the stored checkpoint of a work item that was created last
LastCreated(rows, threadId) ==
  {r \in RowsOf(rows, threadId) : \A q \in RowsOf(rows, threadId) : q.rowid <= r.rowid}

\* C9: reading a work item without a checkpoint id yields the checkpoint of that
\* work item that was created most recently, and yields nothing exactly when the
\* work item has no stored checkpoint
C9_LatestIsMostRecentlyCreated ==
  \A threadId \in Threads :
    /\ (getTuple(agent_states, threadId, NoId) = {}) <=> (RowsOf(agent_states, threadId) = {})
    /\ \A t \in getTuple(agent_states, threadId, NoId) :
         \E r \in LastCreated(agent_states, threadId) : t.checkpoint_id = r.checkpoint_id

\* C10: run and resume on a ticket with currentTurn >= maxTurns fail with
\* MaxTurnsExceededError; the engine is not invoked and neither the ticket nor its
\* checkpointed state changes.
C10_MaxTurnsRejected ==
  [][(IsCallStep({"run", "resume"}) /\ call.kind = "idle"
        /\ ticket.currentTurn >= ticket.maxTurns) =>
       /\ lastCall'.err = "MaxTurnsExceeded"
       /\ ticket' = ticket
       /\ thread' = thread
       /\ call' = call
       /\ uuid' = uuid]_vars

C10_Witness ==
  /\ lastCall.op = "resume"
  /\ lastCall.err = "MaxTurnsExceeded"
  /\ ticket.currentTurn >= ticket.maxTurns
  /\ thread.exists

\* C11: resume on a ticket whose thread has no checkpoint fails with
\* AgentNotRunningError before the human input is recorded, without invoking the
\* engine and without counting a turn.
C11_ResumeWithoutCheckpointFails ==
  [][(IsCallStep({"resume"}) /\ call.kind = "idle" /\ ~thread.exists
        /\ ticket.currentTurn < ticket.maxTurns) =>
       /\ lastCall'.err = "AgentNotRunning"
       /\ ticket' = ticket
       /\ thread' = thread
       /\ call' = call]_vars

NonTerminal ==
  {"draft", "pending_approval", "approved", "in_progress", "awaiting_input", "paused"}

\* C12: after cancel no checkpoint exists for the ticket; a ticket in a non-terminal
\* status becomes cancelled with resolvedAt set; a completed, failed or cancelled
\* ticket keeps its status and resolvedAt, and cancel raises no error.
C12_CancelContract ==
  [][(lastCall'.op = "cancel" /\ call.kind = "idle" /\ now' = now) =>
       /\ ~thread'.exists
       /\ thread' = DefaultState
       /\ lastCall'.err = "none"
       /\ (ticket.status \in NonTerminal =>
             ticket'.status = "cancelled" /\ ticket'.resolvedAt = now /\ now # 0)
       /\ (ticket.status \notin NonTerminal => ticket' = ticket)]_vars

\* a ticket that was run and left checkpoints has been cancelled
C12_Witness ==
  /\ lastCall.op = "cancel"
  /\ calls >= 1
  /\ ticket.status = "cancelled"
  /\ ticket.resolvedAt # 0
  /\ ~thread.exists

\* C13: whenever run obtains an engine result, the ticket's status afterwards is
\* completed for phase completed, pending_approval for phase waiting with
\* waitingFor approval and an unapproved plan, and awaiting_input for any other
\* waiting result, from whatever status the run started.
C13_RunMapsPhaseToStatus ==
  [][(call.kind = "run" /\ call.node = "end" /\ call'.kind = "idle") =>
       /\ (thread.phase = "completed" => ticket'.status = "completed")
       /\ (thread.phase = "waiting" =>
             ticket'.status =
               IF thread.waitingFor = "approval" /\ HasPlan(thread.structuredPlan)
                    /\ thread.structuredPlan.approvedAt = 0
                 THEN "pending_approval"
                 ELSE "awaiting_input")]_vars

\* C14: when planning succeeds the new plan is unapproved with every step pending;
\* with planApprovalRequired the invocation ends with phase waiting and waitingFor
\* approval without executing any step, otherwise execution starts with phase
\* executing at currentStepIndex 0.
C14_PlanningOutcome ==
  /\ [][(call.node = "planning" /\ uuid' = uuid + 1) =>
          /\ thread'.structuredPlan.approvedAt = 0
          /\ \A i \in DOMAIN thread'.structuredPlan.steps :
               thread'.structuredPlan.steps[i] = PendingStep
          /\ ticket'.structuredPlan = thread'.structuredPlan
          /\ IF thread.planApprovalRequired
               THEN /\ thread'.phase = "waiting"
                    /\ thread'.waitingFor = "approval"
                    /\ call'.node = "wait"
               ELSE /\ thread'.phase = "executing"
                    /\ thread'.currentStepIndex = 0
                    /\ call'.node = "execute"]_vars
  /\ [][(call.node = "wait" /\ call.plans >= 1 /\ thread.planApprovalRequired
           /\ call' # call) =>
          /\ call'.node = "end"
          /\ thread'.phase = "waiting"
          /\ thread'.waitingFor = "approval"]_vars

CompletedSteps(plan) == {i \in DOMAIN plan.steps : plan.steps[i].status = "completed"}

\* C15: from a state waiting for approval of a plan with n steps, an approving
\* input clears waitingFor and moves to executing; when every step response is
\* tool-free and the review says TASK_COMPLETE, the steps are completed in index
\* order, each exactly once, and the invocation ends with phase completed,
\* waitingFor null and currentStepIndex n.
C15_ApprovedPlanRunsToCompletion ==
  /\ [][(call.approvalGiven /\ call.node = "wait" /\ call' # call) =>
          /\ thread'.waitingFor = "none"
          /\ thread'.phase = "executing"
          /\ call'.node = "execute"]_vars
  /\ [][(call.approvalGiven /\ call.clean /\ call.node = "execute" /\ call' # call
           /\ call'.clean /\ call'.node # "threw") =>
          /\ thread'.currentStepIndex = thread.currentStepIndex + 1
          /\ CompletedSteps(ticket'.structuredPlan) =
               CompletedSteps(ticket.structuredPlan) \cup {thread.currentStepIndex + 1}
          /\ thread.currentStepIndex + 1 \notin CompletedSteps(ticket.structuredPlan)]_vars
  /\ []((call.approvalGiven /\ call.clean) =>
          CompletedSteps(ticket.structuredPlan) = 1..thread.currentStepIndex)
  /\ []((call.approvalGiven /\ call.clean /\ call.node \in {"end", "threw"}) =>
          /\ call.node = "end"
          /\ thread.phase = "completed"
          /\ thread.waitingFor = "none"
          /\ thread.currentStepIndex = Len(thread.structuredPlan.steps))

\* C16: a rejecting input on a state waiting for approval ends the invocation with
\* phase completed, waitingFor null and an error saying the plan was rejected; the
\* reasoning engine is not called and no step's status changes.
C16_RejectionEndsInvocation ==
  [][(call.node = "wait" /\ call' # call /\ thread.humanInput = "deny"
        /\ thread.phase = "waiting" /\ thread.waitingFor = "approval") =>
       /\ thread'.phase = "completed"
       /\ thread'.waitingFor = "none"
       /\ thread'.error = "rejected"
       /\ call'.node = "end"
       /\ thread'.messages = thread.messages
       /\ thread'.tokenUsage = thread.tokenUsage
       /\ thread'.structuredPlan = thread.structuredPlan
       /\ ticket' = ticket
       /\ uuid' = uuid]_vars

\* an invocation has ended at wait on a rejected plan
C16_Witness ==
  /\ call.node = "end"
  /\ call.waits = 1
  /\ thread.phase = "completed"
  /\ thread.error = "rejected"
  /\ thread.waitingFor = "none"

\* C17: for every planning response that is not strict JSON of the plan form (plain
\* text, malformed JSON inside braces, JSON without a steps list) the invocation
\* ends with phase completed and an error naming the parse failure; no exception
\* escapes the engine, no plan is persisted and planning is not retried.
C17_UnparsablePlanEndsInvocation ==
  [][(call.node = "planning" /\ call' # call /\ uuid' = uuid
        /\ call'.cause \notin {"llm_error", "plan"}) =>
       /\ call'.node = "end"
       /\ thread'.phase = "completed"
       /\ thread'.error = "parse"
       /\ thread'.structuredPlan = thread.structuredPlan
       /\ ticket' = ticket]_vars

\* C18: whenever run or resume returns a result, also after a failure of the
\* reasoning engine, a tool or a status transition, the ticket's status is terminal
\* or suspended; it is never left in in_progress or approved.
C18_ReturnLeavesStableStatus ==
  [][(call.kind \in {"run", "resume"} /\ call'.kind = "idle") =>
       ticket'.status \in {"completed", "failed", "cancelled", "pending_approval",
                           "awaiting_input", "paused"}]_vars

\* C19: updatePlanStep(id, i, partial) changes only the fields named in partial of
\* the step at position i; every other step and every other field of the plan and
\* of the ticket stays; on a ticket without plan it fails with NoPlanError and
\* changes nothing.
C19_UpdatePlanStepFrame ==
  \A stepIndex \in 0..MaxPlanSteps, update \in PlanStepUpdates :
    LET r == updatePlanStep(ticket, stepIndex, update)
        old == ticket.structuredPlan
        new == r.ticket.structuredPlan
    IN IF ~HasPlan(old)
         THEN r.err = "NoPlan" /\ r.ticket = ticket
         ELSE /\ r.err = "none"
              /\ [r.ticket EXCEPT !.structuredPlan = old] = ticket
              /\ new.gen = old.gen
              /\ new.approvedAt = old.approvedAt
              /\ Len(new.steps) = Len(old.steps)
              /\ \A j \in DOMAIN old.steps :
                   IF j - 1 = stepIndex
                     THEN \A f \in DOMAIN old.steps[j] :
                            new.steps[j][f] =
                              IF f \in DOMAIN update THEN update[f] ELSE old.steps[j][f]
                     ELSE new.steps[j] = old.steps[j]

\* the second step of a two-step plan was updated after the first one
C19_Witness ==
  /\ lastCall.op = "updatePlanStep"
  /\ lastCall.err = "none"
  /\ Len(ticket.structuredPlan.steps) = 2
  /\ ticket.structuredPlan.steps[1].status = "completed"
  /\ ticket.structuredPlan.steps[1].startedAt # 0
  /\ ticket.structuredPlan.steps[2].status = "in_progress"
  /\ ticket.structuredPlan.approvedAt # 0

\* C20: putWrites(w, c, writes, taskId) fails with a not-found error and leaves the
\* table as it was when no checkpoint (w, c) is stored; otherwise it appends the
\* writes, each tagged with taskId and in the given order, after the pending writes
\* stored for (w, c), and changes neither that checkpoint's snapshot nor any other
\* checkpoint.
C20_PutWritesAppends ==
  [][(lastPut'.op = "putWrites" /\ storeOps' = storeOps + 1) =>
       LET w == lastPut'.ticket_id
           c == lastPut'.checkpoint_id
           k == lastPut'.taskId
           ws == lastPut'.writes
       IN IF RowsAt(agent_states, w, c) = {}
            THEN lastPut'.err = "Checkpoint not found" /\ agent_states' = agent_states
            ELSE /\ lastPut'.err = "none"
                 /\ agent_states' \ RowsAt(agent_states', w, c) =
                      agent_states \ RowsAt(agent_states, w, c)
                 /\ Cardinality(RowsAt(agent_states', w, c)) = 1
                 /\ \A old \in RowsAt(agent_states, w, c), new \in RowsAt(agent_states', w, c) :
                      /\ [new EXCEPT !.pending_writes = old.pending_writes] = old
                      /\ Len(new.pending_writes) = Len(old.pending_writes) + Len(ws)
                      /\ \A i \in DOMAIN old.pending_writes :
                           new.pending_writes[i] = old.pending_writes[i]
                      /\ \A i \in DOMAIN ws :
                           new.pending_writes[Len(old.pending_writes) + i] = <<k, ws[i]>>
                 /\ \A t \in getTuple(agent_states', w, c) :
                      \E o \in getTuple(agent_states, w, c) :
                        t.checkpoint = o.checkpoint /\ t.metadata = o.metadata]_vars

\* two writes of task k2 were appended behind one of task k1
C20_Witness ==
  /\ lastPut.op = "putWrites"
  /\ lastPut.err = "none"
  /\ \E r \in agent_states :
       r.pending_writes = <<<<"k1", "a">>, <<"k2", "a">>, <<"k2", "b">>>>

\* C21: deleteThread(w) removes every checkpoint of work item w, so that reading w
\* afterwards yields nothing and listing w yields the empty sequence, and leaves
\* the checkpoints of every other work item as they were.
C21_DeleteThreadFrame ==
  [][(lastPut'.op = "deleteThread" /\ storeOps' = storeOps + 1) =>
       LET w == lastPut'.ticket_id
       IN /\ RowsOf(agent_states', w) = {}
          /\ getTuple(agent_states', w, NoId) = {}
          /\ \A c \in CheckpointIds : getTuple(agent_states', w, c) = {}
          /\ \A before \in CheckpointIds \cup {NoId}, limit \in 0..MaxLimit :
               list(agent_states', w, before, limit) = {<<>>}
          /\ \A o \in Threads \ {w} :
               /\ RowsOf(agent_states', o) = RowsOf(agent_states, o)
               /\ getTuple(agent_states', o, NoId) = getTuple(agent_states, o, NoId)
               /\ list(agent_states', o, NoId, 0) = list(agent_states, o, NoId, 0)]_vars

\* a work item holding a checkpoint was deleted while the other one keeps its own
C21_Witness ==
  /\ lastPut.op = "deleteThread"
  /\ lastPut.existed
  /\ RowsOf(agent_states, lastPut.ticket_id) = {}
  /\ \E o \in Threads \ {lastPut.ticket_id} : RowsOf(agent_states, o) # {}

\* the checkpoint ids of rows, latest creation first
RECURSIVE NewestFirst(_)
NewestFirst(rows) ==
  IF rows = {} THEN <<>>
  ELSE LET r == CHOOSE r \in rows : \A q \in rows : q.rowid <= r.rowid
       IN <<r.checkpoint_id>> \o NewestFirst(rows \ {r})

\* the checkpoints of a work item created strictly before checkpoint `before`
CreatedBefore(rows, threadId, before) ==
  {r \in RowsOf(rows, threadId) :
     before # NoId => \E b \in RowsAt(rows, threadId, before) : r.rowid < b.rowid}

\* C22: list(w) yields exactly the checkpoints of work item w, newest first by
\* creation; with before = c (a stored checkpoint of w) only those created
\* strictly before c, and with limit = k the k newest of the qualifying ones.
C22_ListNewestFirst ==
  \A w \in Threads, before \in CheckpointIds \cup {NoId}, limit \in 0..MaxLimit :
    (before = NoId \/ RowsAt(agent_states, w, before) # {}) =>
      \A seq \in list(agent_states, w, before, limit) :
        [i \in DOMAIN seq |-> seq[i].checkpoint_id] =
          Limit(NewestFirst(CreatedBefore(agent_states, w, before)), limit)

\* C23: the stored checkpoints of a work item form a chain: one row per checkpoint
\* id (so at most one parent each), exactly one of them, the root, has a null
\* parent, and every other parent names a stored checkpoint of the same work item
\* that was created earlier, so that parent links never cycle.
C23_CheckpointsFormChain ==
  \A w \in Threads :
    LET stored == RowsOf(agent_states, w)
    IN /\ \A r, q \in stored : r.checkpoint_id = q.checkpoint_id => r = q
       /\ stored # {} =>
            Cardinality({r \in stored : r.parent_checkpoint_id = NoId}) = 1
       /\ \A r \in stored :
            r.parent_checkpoint_id # NoId =>
              \E q \in stored : /\ q.checkpoint_id = r.parent_checkpoint_id
                                /\ q.rowid < r.rowid

\* C24: when the execute node is entered without a plan or with currentStepIndex
\* outside the plan's steps, the invocation ends there with phase completed and
\* an error set; the execute node does not run again within that invocation.
C24_InvalidIndexEndsInvocation ==
  [][(call.node = "execute" /\ call' # call /\ ~ExecuteCallsLlm(thread)) =>
       /\ thread'.phase = "completed"
       /\ thread'.error # "none"
       /\ call'.node = "end"]_vars

\* C25: an execute call for a step that an earlier execute call already marked
\* in_progress leaves the step's startedAt as it was written the first time.
C25_StartedAtWrittenOnce ==
  [][(/\ call.node = "execute" /\ call' # call
      /\ ExecuteCallsLlm(thread)
      /\ ticket.structuredPlan.gen = thread.structuredPlan.gen
      /\ ticket.structuredPlan.steps[thread.currentStepIndex + 1].status = "in_progress") =>
       ticket'.structuredPlan.steps[thread.currentStepIndex + 1].startedAt =
         ticket.structuredPlan.steps[thread.currentStepIndex + 1].startedAt]_vars

\* C26: an execute call whose response holds tool calls appends, behind the
\* response, exactly one tool-result message per tool call in the order of the
\* calls; a tool that throws leaves an error message in its place, the tools
\* behind it still run, and the node does not throw.
C26_OneToolMessagePerCall ==
  (call.node = "execute" /\ ExecuteCallsLlm(thread) /\ TicketFound(thread.ticketId)) =>
    \A response \in ExecuteResponsesLong :
      response.kind = "tools" =>
        LET r == ExecuteNode(thread, ticket, response)
            head == ExecutePrompt(thread) \o <<"ai_tool_calls">>
            results == SubSeq(r.update.messages, Len(head) + 1, Len(r.update.messages))
        IN /\ ~r.throws
           /\ r.update.phase = "executing"
           /\ SubSeq(r.update.messages, 1, Len(head)) = head
           /\ Len(results) = Len(response.tool_calls)
           /\ \A i \in DOMAIN results : results[i] = ToolMessageFor(i)
           /\ (\E i \in DOMAIN response.tool_calls : response.tool_calls[i] = "ask_question")
                 => r.ticket.pendingQuestion
           /\ (\E i \in DOMAIN response.tool_calls : response.tool_calls[i] = "request_approval")
                 => r.ticket.pendingApproval

\* C27: an execute call whose response holds tool calls leaves phase executing,
\* currentStepIndex and the completion (status completed, completedAt, output) of
\* the current step as they were; a call whose response holds none marks the
\* current step, and no other, completed with its output and completedAt,
\* increases currentStepIndex by exactly 1 and sets phase reviewing.
C27_ExecuteOutcome ==
  (call.node = "execute" /\ ExecuteCallsLlm(thread) /\ TicketFound(thread.ticketId)) =>
    \A response \in ExecuteResponses :
      LET r == ExecuteNode(thread, ticket, response)
          after == ApplyUpdate(thread, r.update)
          idx == thread.currentStepIndex + 1
          old == ticket.structuredPlan.steps
          new == r.ticket.structuredPlan.steps
      IN /\ response.kind = "tools" =>
              /\ ~r.throws
              /\ after.phase = "executing"
              /\ after.currentStepIndex = thread.currentStepIndex
              /\ DOMAIN new = DOMAIN old
              /\ (new[idx].status = "completed") <=> (old[idx].status = "completed")
              /\ new[idx].completedAt = old[idx].completedAt
              /\ new[idx].output = old[idx].output
              /\ \A j \in DOMAIN old : j # idx => new[j] = old[j]
         /\ response.kind = "text" =>
              /\ ~r.throws
              /\ after.phase = "reviewing"
              /\ after.currentStepIndex = thread.currentStepIndex + 1
              /\ DOMAIN new = DOMAIN old
              /\ new[idx].status = "completed"
              /\ new[idx].completedAt = now
              /\ new[idx].output = StepOutput
              /\ \A j \in DOMAIN old : j # idx => new[j] = old[j]

\* the second step of a plan was completed after a round of tool calls and review
\* has not run yet
C27_Witness ==
  /\ call.node = "review"
  /\ thread.phase = "reviewing"
  /\ thread.currentStepIndex = 2
  /\ Len(ticket.structuredPlan.steps) = 2
  /\ ticket.structuredPlan.steps[1].status = "completed"
  /\ ticket.structuredPlan.steps[2].status = "completed"
  /\ ticket.structuredPlan.steps[2].output = StepOutput
  /\ ticket.structuredPlan.steps[2].completedAt > ticket.structuredPlan.steps[1].completedAt
  /\ \E i \in DOMAIN thread.messages : thread.messages[i] = "ai_tool_calls"

\* C28: the review node, on a state with a plan: with currentStepIndex below the
\* number of steps it moves to executing without calling the LLM (no message, no
\* usage) and without changing currentStepIndex; otherwise it calls the LLM once
\* and sets phase completed exactly when the response contains TASK_COMPLETE, and
\* phase executing for any other response.
C28_ReviewOutcome ==
  (call.node = "review" /\ HasPlan(thread.structuredPlan)) =>
    \A response \in ReviewResponses :
      response.kind # "llm_error" =>
        LET after == ApplyUpdate(thread, ReviewNode(thread, response))
        IN /\ after.currentStepIndex = thread.currentStepIndex
           /\ after.structuredPlan = thread.structuredPlan
           /\ IF thread.currentStepIndex < Len(thread.structuredPlan.steps)
                THEN /\ ~ReviewCallsLlm(thread)
                     /\ after.phase = "executing"
                     /\ after.messages = thread.messages
                     /\ after.tokenUsage = thread.tokenUsage
                     /\ routeAfterReview(after) = "execute"
                ELSE /\ ReviewCallsLlm(thread)
                     /\ after.messages = thread.messages \o <<"review_prompt", "ai">>
                     /\ after.tokenUsage =
                          AddUsage(thread.tokenUsage, extractTokenUsage(response.usage))
                     /\ (after.phase = "completed") <=> (response.kind = "TASK_COMPLETE")
                     /\ (after.phase = "executing") <=> (response.kind # "TASK_COMPLETE")
                     /\ routeAfterReview(after) =
                          IF response.kind = "TASK_COMPLETE" THEN "end" ELSE "execute"

\* a two-step plan was reviewed after each step and certified complete at the end
C28_Witness ==
  /\ call.node = "end"
  /\ thread.phase = "completed"
  /\ thread.error = "none"
  /\ Len(thread.structuredPlan.steps) = 2
  /\ thread.currentStepIndex = 2
  /\ Len(thread.messages) >= 2
  /\ SubSeq(thread.messages, Len(thread.messages) - 1, Len(thread.messages)) =
       <<"review_prompt", "ai">>
  /\ Cardinality({i \in DOMAIN thread.messages : thread.messages[i] = "review_prompt"}) = 1

\* the first node by the rule of entry routing, read off a state
EntryPhase(state) ==
  IF HasPlan(state.structuredPlan)
    THEN IF state.phase = "waiting" \/ state.waitingFor # "none" THEN "wait"
         ELSE IF state.phase \in {"executing", "reviewing"} THEN "execute"
         ELSE "planning"
    ELSE "planning"

\* C29 as stated: the first node of every invocation follows from the persisted
\* state alone: wait for a plan with phase waiting or waitingFor set, execute for
\* a plan with phase executing or reviewing, planning in every other case.
C29_EntryFromPersistedState ==
  [][(call.kind = "idle" /\ call'.kind # "idle") =>
       call'.node = EntryPhase(thread)]_vars

\* C29, amended: the first node of an invocation follows by that rule from the
\* state the graph starts on, the persisted state with the invocation's input
\* written over it; that is the persisted state's own route for resume and for
\* run on a ticket without approved plan, and wait for run on a ticket whose
\* plan is approved.
C29_EntryFromStartState ==
  [][(call.kind = "idle" /\ call'.kind # "idle") =>
       /\ call'.steps = 0
       /\ call'.node = EntryPhase(thread')
       /\ IF call'.kind = "run" /\ hasApprovedPlan(ticket)
            THEN call'.node = "wait"
            ELSE call'.node = EntryPhase(thread)]_vars

\* a resume has just started on a checkpoint left in phase reviewing and enters
\* at execute
C29_Witness ==
  /\ call.kind = "resume"
  /\ call.steps = 0
  /\ call.node = "execute"
  /\ thread.phase = "reviewing"
  /\ HasPlan(thread.structuredPlan)

\* C30: over the run/resume invocations of one execution of a ticket the plan is
\* generated and stored on the ticket once: no invocation replaces a stored plan
\* or sets a step that has left pending back to pending.
C30_PlanPersistedOnce ==
  /\ [](uuid <= 1)
  /\ [][HasPlan(ticket.structuredPlan) =>
          /\ ticket'.structuredPlan.gen = ticket.structuredPlan.gen
          /\ DOMAIN ticket'.structuredPlan.steps = DOMAIN ticket.structuredPlan.steps
          /\ \A i \in DOMAIN ticket.structuredPlan.steps :
               ticket'.structuredPlan.steps[i].status = "pending" =>
                 ticket.structuredPlan.steps[i].status = "pending"]_vars

\* C31: an invocation of the graph that reaches END, and so returns to run or
\* resume, returns with phase completed or waiting, never with phase planning,
\* executing or reviewing.
C31_ReturnsCompletedOrWaiting ==
  call.node = "end" => thread.phase \in {"completed", "waiting"}

\* a resume without input has returned from wait, still waiting
C31_Witness ==
  /\ call.kind = "resume"
  /\ call.node = "end"
  /\ call.waits = 1
  /\ call.plans = 0
  /\ thread.phase = "waiting"
  /\ thread.humanInput = "none"

\* C32: once put(w, parent, snapshot, metadata) has returned checkpoint id c,
\* reading (w, c) yields exactly that snapshot and that metadata with that parent.
C32_PutGetRoundTrip ==
  lastPut.op = "put" =>
    \A t \in getTuple(agent_states, lastPut.ticket_id, lastPut.checkpoint_id) :
      getTuple(agent_states, lastPut.ticket_id, lastPut.checkpoint_id) =
        {[checkpoint_id |-> lastPut.checkpoint_id,
          checkpoint |-> lastPut.v,
          metadata |-> lastPut.metadata,
          parent |-> lastPut.parent,
          pendingWrites |-> t.pendingWrites]}

\* C33: resume(id, input) on a ticket below its turn budget with a checkpoint:
\* an approval input without pendingApproval fails with NoPendingApprovalError and
\* an answer input without pendingQuestion with NoPendingQuestionError, the graph
\* is not invoked and ticket and checkpoint stay as they were; otherwise the
\* pending approval or question is cleared and the graph is invoked with the
\* human input alone.
C33_ResumeRecordsInput ==
  [][(IsCallStep({"resume"}) /\ call.kind = "idle" /\ thread.exists
        /\ ticket.currentTurn < ticket.maxTurns) =>
       LET input == lastCall'.input
       IN IF input \in {"approve", "deny"} /\ ~ticket.pendingApproval
            THEN /\ lastCall'.err = "NoPendingApproval"
                 /\ ticket' = ticket /\ thread' = thread /\ call' = call
          ELSE IF input \in {"answer", "answer_blank"} /\ ~ticket.pendingQuestion
            THEN /\ lastCall'.err = "NoPendingQuestion"
                 /\ ticket' = ticket /\ thread' = thread /\ call' = call
          ELSE /\ call'.kind = "resume"
               /\ thread' = [thread EXCEPT !.humanInput = input]
               /\ (input \in {"approve", "deny"} => ~ticket'.pendingApproval)
               /\ (input \in {"answer", "answer_blank"} => ~ticket'.pendingQuestion)]_vars

\* C34: resolvedAt is set only while the status is completed, failed or
\* cancelled, and a successful transitionStatus writes resolvedAt exactly when
\* its target is one of those three statuses.
C34_ResolvedAtOnlyWhenTerminal ==
  /\ [](ticket.resolvedAt # 0 => ticket.status \in {"completed", "failed", "cancelled"})
  /\ [][(IsCallStep({"transitionStatus"}) /\ lastCall'.err = "none") =>
          ticket'.resolvedAt =
            IF lastCall'.to \in {"completed", "failed", "cancelled"}
              THEN now ELSE ticket.resolvedAt]_vars

\* C35: with planApprovalRequired, a plan waiting for approval goes on to
\* executing only in an invocation that brought the approval of that waiting
\* plan: a resume with an approving input on the waiting state, or a run on a
\* ticket whose plan was approved; no other human input, and none left in the
\* state from before, ends the wait for approval.
C35_NoExecutionWithoutApproval ==
  [][(/\ call.node = "wait" /\ call' # call
      /\ thread.planApprovalRequired
      /\ thread.waitingFor = "approval"
      /\ thread'.phase = "executing") =>
       (call.approvalGiven \/ call.approvedEntry)]_vars

\* C36: run(id) on a ticket whose status is completed, failed or cancelled starts
\* no invocation of the graph: no node is entered, and the ticket (its plan and
\* currentTurn included) and the checkpointed state stay as they were.
C36_RunOnTerminalTicketDoesNothing ==
  [][(/\ IsCallStep({"run"}) /\ call.kind = "idle"
      /\ ticket.status \in {"completed", "failed", "cancelled"}) =>
       (call' = call /\ ticket' = ticket /\ thread' = thread)]_vars

\* C37: after a run or resume that returned a result, the ticket's tokenUsage is
\* the sum of the usage of the reasoning-engine calls made for the ticket, each
\* counted once. While the thread is never deleted that sum is the workflow
\* state's tokenUsage, to which the reducer adds every node's usage.
C37_TicketUsageCountsEachCallOnce ==
  (call.kind = "idle" /\ lastCall.op \in {"run", "resume"} /\ lastCall.err = "none") =>
    ticket.tokenUsage = thread.tokenUsage

\* the number of engine results the callers obtained
RECURSIVE ResultsOf(_)
ResultsOf(ps) ==
  IF ps = {} THEN 0
  ELSE LET p == CHOOSE q \in ps : TRUE
       IN inflight[p].results + ResultsOf(ps \ {p})

\* C38: two run() calls of one ticket in flight together lose no update: once
\* both have returned, currentTurn is the number of engine results obtained, and
\* no step lowers currentTurn or a component of tokenUsage.
C38_ConcurrentCallsLoseNoUpdate ==
  /\ []((\A p \in Callers : inflight[p].at = "idle") =>
          ticket.currentTurn = ResultsOf(Callers))
  /\ [][/\ ticket'.currentTurn >= ticket.currentTurn
        /\ UsageLeq(ticket.tokenUsage, ticket'.tokenUsage)]_vars

\* C39: run and resume report success only for an invocation that ended with
\* phase completed and without an error in its final state (plan rejected, plan
\* not parsed, no plan, invalid step index).
C39_SuccessMeansNoError ==
  (lastCall.op \in {"run", "resume"} /\ lastCall.success) =>
    (thread.phase = "completed" /\ thread.error = "none")

\* C40: on a ticket with a pending approval (a pending question) and a checkpoint,
\* within the turn budget, the presentation layer's grant or deny (answer) clears
\* the pending item and resumes the engine with that input; it does not end in
\* NoPendingApproval or NoPendingQuestion.
C40_PresentationLayerResumes ==
  [][(/\ IsCallStep({"clearThenResume"}) /\ call.kind = "idle"
      /\ thread.exists /\ ~MaxTurnsExceeded(ticket)
      /\ \/ lastCall'.input \in {"approve", "deny"} /\ ticket.pendingApproval
         \/ lastCall'.input \in {"answer", "answer_blank"} /\ ticket.pendingQuestion) =>
       (/\ lastCall'.err = "pending"
        /\ call'.kind = "resume"
        /\ thread'.humanInput = lastCall'.input
        /\ lastCall'.input \in {"approve", "deny"} => ~ticket'.pendingApproval
        /\ lastCall'.input \in {"answer", "answer_blank"} => ~ticket'.pendingQuestion)]_vars

====
